---- MODULE Spec2Model ----
(***************************************************************************)
(* State-machine model of train() in train.py: the checkpoint restore, the *)
(* epoch loop with its training and testing passes over merged batches,    *)
(* the epoch averages and history lists, the periodic plots and the        *)
(* checkpoint decision.  A process may be invoked again after it ended, so *)
(* that the checkpoint file left by one run is what the next run restores. *)
(***************************************************************************)
EXTENDS Integers, Sequences, FiniteSets, TLC

\* ---------------------------------------------------------------- bounds
MaxEpochs == 2      \* num_epochs of the runs with varied data
PlotEpochs == 6     \* num_epochs of the long runs over fixed data
MaxBatches == 2     \* batches a loader yields
MaxBatchSize == 2   \* samples of one batch
MaxClasses == 2     \* num_classes of the runs with varied data
MaxRecon == 1       \* largest reconstruction term of a loss
MaxLambda == 1      \* largest lambda_
MaxTraces == 256    \* prediction/loss traces of one run with varied data
MaxRuns == 2        \* process invocations

\* ------------------------------------------------------ program constants
PlotEvery == 5      \* epoch_idx%5==0

\* ------------------------------------------------------------- values
None == "None"
\* Contents of checkpoint_path: no file, a file torch.load / load_state_dict
\* rejects, or a saved state_dict (the parameters p).
NoFile == [kind |-> "none", params |-> 0]
Corrupt == [kind |-> "corrupt", params |-> 0]
StateDict(p) == [kind |-> "state", params |-> p]

\* ------------------------------------------------ rationals (Python "/")
RECURSIVE GCD(_, _)
GCD(a, b) == IF b = 0 THEN a ELSE GCD(b, a % b)

Frac(n, d) == LET g == GCD(n, d) IN [num |-> n \div g, den |-> d \div g]
Zero == [num |-> 0, den |-> 1]
FromInt(n) == [num |-> n, den |-> 1]
FAdd(x, y) == Frac(x.num * y.den + y.num * x.den, x.den * y.den)
FDiv(x, n) == Frac(x.num, x.den * n)
FLess(x, y) == x.num * y.den < y.num * x.den

RECURSIVE FSum(_)
FSum(s) == IF s = <<>> THEN Zero ELSE FAdd(FSum(Tail(s)), Head(s))

\* ------------------------------------------------------- sequence helpers
SeqOfLen(S, n) == [1..n -> S]
Last(s) == s[Len(s)]

\* ------------------------------------------------------- data and loaders
Classes(nc) == 0 .. (nc - 1)

\* Sample s of a data set: its two modalities and its label.
Image(set, s) == <<set, s, "frame">>
Flow(set, s) == <<set, s, "flow">>
Label(s, nc) == s % nc

\* Batch b (from 0) of a loader of batches of B samples.
Batch(set, b, B, nc) ==
    [data       |-> [i \in 1..B |-> Image(set, b * B + i)],
     optic_data |-> [i \in 1..B |-> Flow(set, b * B + i)],
     labels     |-> [i \in 1..B |-> Label(b * B + i, nc)]]

MakeLoader(set, n, B, nc) == [b \in 1..n |-> Batch(set, b - 1, B, nc)]

\* ----------------------------------------------------------- pure steps
\* Mutant of Merge: the second operand first.
MergeSwapped(a, b) == b \o a

\* torch.concat((a, b)) along the batch dimension
Merge(a, b) == a \o b

\* onehot_encode(labels, num_classes)
onehot_encode(lab, nc) ==
    [i \in 1..Len(lab) |-> [c \in Classes(nc) |-> IF c = lab[i] THEN 1 ELSE 0]]

\* accuracy_calc(predictions, labels): fraction of exact index matches
accuracy_calc(predictions, lab) ==
    Frac(Cardinality({i \in 1..Len(lab) : i <= Len(predictions) /\ predictions[i] = lab[i]}),
         Len(lab))

\* deepcaps(data, optic_data, onehot_label): per branch the class outputs, the
\* reconstructions and the predicted indices; idx and idx1 are the indices the
\* network predicts for the two branches.
Forward(d, o, nc, idx, idx1) ==
    [outputs        |-> onehot_encode(idx, nc),
     reconstructed  |-> [i \in 1..Len(d) |-> <<"recon", d[i]>>],
     indices        |-> idx,
     outputs1       |-> onehot_encode(idx1, nc),
     reconstructed1 |-> [i \in 1..Len(o) |-> <<"recon", o[i]>>],
     indices1       |-> idx1]

\* deepcaps.loss(x, reconstructed, data, labels, lambda_, ...): margin term over
\* the class outputs plus lambda_ times the reconstruction term (err)
Loss(x, onehot, lam, err) ==
    Cardinality({i \in 1..Len(onehot) : i > Len(x) \/ x[i] # onehot[i]}) + lam * err

\* Mutant of Divisor: the index of the last batch instead of the batch count.
DivisorLastIndex(bidx) == bidx

\* (batch_idx+1), the divisor of the epoch averages
Divisor(bidx) == bidx + 1

\* batch_accuracy/(batch_idx+1), batch_loss/(batch_idx+1)
EpochAverage(total, bidx) == FDiv(total, Divisor(bidx))

\* (batch_loss/(batch_idx+1))/2
TestLossAverage(total, bidx) == FDiv(FDiv(total, Divisor(bidx)), 2)

\* Mutant of ShouldPlot: every fifth epoch counted from 1.
ShouldPlotFifth(folder, e) == folder # None /\ (e + 1) % PlotEvery = 0

\* if not graphs_folder is None and epoch_idx%5==0
ShouldPlot(folder, e) == folder # None /\ e % PlotEvery = 0

\* if best_accuracy < epoch_accuracy
ShouldSave(best, acc) == FLess(best, acc)

\* Mutant of ShouldRestore: the file's existence is not asked.
ShouldRestoreUnchecked(flag, name, file) == flag /\ name # None

\* if load_checkpoint and not checkpoint_name is None and os.path.exists(...)
ShouldRestore(flag, name, file) == flag /\ name # None /\ file # NoFile

\* optimizer.step(): the parameters after one update
Step(p) == p + 1

\* sys.exit() with no argument: SystemExit(None), exit status 0
SysExitCode == 0
\* an uncaught exception ends the interpreter with status 1
UncaughtCode == 1

\* ------------------------------------------------------------------ state
VARIABLES
    \* arguments of train() and the module-level loaders
    num_epochs, num_classes, lambda_, checkpoint_name, load_checkpoint,
    graphs_folder, train_loader, test_loader,
    \* the process
    pc,               \* position in train()
    run,              \* number of this invocation of the program
    exit_code,        \* exit status once the process ended, -1 while it runs
    \* locals of train()
    deepcaps,         \* [built, params, training]
    optimizer,        \* [created, steps]
    best_accuracy,
    training_loss_list, training_acc_list, testing_loss_list, testing_acc_list,
    epoch_idx,        \* -1 before the first iteration binds it
    it,               \* position of the enumerate() iterator of the current pass
    batch_idx, batch_loss, batch_accuracy,
    epoch_accuracy, avg_batch_loss,
    bound,            \* TRUE once a batch bound the batch locals below
    data, optic_data, labels, data_con, labels_con, fwd, out, recon, ind, loss,
    \* the outside world
    checkpoint_file,  \* contents of checkpoint_path
    plots,            \* calls received by plot_loss_acc / plot_reconstruction
    \* observers
    log,              \* what this run did, in order
    phase_losses, phase_accs,   \* per-batch loss.item() / accuracy_calc of the pass
    last_test,        \* [batch, ind] of the last testing batch of this epoch
    saved,            \* [run, epoch, acc] of the last torch.save, run 0 if none
    first_best        \* [epochs, best] of each ended run: its testing history

args == <<num_epochs, num_classes, lambda_, checkpoint_name, graphs_folder,
          train_loader, test_loader>>
lists == <<training_loss_list, training_acc_list, testing_loss_list, testing_acc_list>>
batch_locals == <<bound, data, optic_data, labels, data_con, labels_con, fwd, out,
                  recon, ind, loss>>
accum == <<batch_idx, batch_loss, batch_accuracy>>
averages == <<epoch_accuracy, avg_batch_loss>>
observers == <<phase_losses, phase_accs, last_test, saved, first_best>>

vars == <<args, load_checkpoint, pc, run, exit_code, deepcaps, optimizer,
          best_accuracy, lists, epoch_idx, it, accum, averages, batch_locals,
          checkpoint_file, plots, log, observers>>

NoForward == [outputs |-> <<>>, reconstructed |-> <<>>, indices |-> <<>>,
              outputs1 |-> <<>>, reconstructed1 |-> <<>>, indices1 |-> <<>>]

\* The locals of train() before the function body ran, and the observers of
\* the run.
Fresh ==
    [pc |-> "start", exit_code |-> -1,
     deepcaps |-> [built |-> FALSE, params |-> 0, training |-> TRUE],
     optimizer |-> [created |-> FALSE, steps |-> 0],
     epoch_idx |-> -1, zero |-> Zero, empty |-> <<>>, fwd |-> NoForward,
     last_test |-> [batch |-> -1, ind |-> <<>>]]

\* Upper bound on the number of different traces of predictions and losses of
\* one run: outcomes of one batch to the power of the batches of the run.
RECURSIVE Power(_, _)
Power(k, e) ==
    IF e = 0 THEN 1
    ELSE LET r == Power(k, e - 1) IN IF r > MaxTraces THEN r ELSE k * r

Traces(ne, nTrain, nTest, B, nc, lam) ==
    Power(Power(nc, 2 * B) * (1 + lam * MaxRecon), ne * (nTrain + nTest))

\* Runs over varied data: every label count, batch size and loss weight, and
\* every prediction the network can make, for as many epochs as MaxTraces allows.
InitVaried ==
    /\ num_epochs \in 0..MaxEpochs
    /\ num_classes \in 1..MaxClasses
    /\ lambda_ \in 0..MaxLambda
    /\ \E nTrain \in 0..MaxBatches, nTest \in 0..MaxBatches, B \in 1..MaxBatchSize :
          /\ Traces(num_epochs, nTrain, nTest, B, num_classes, lambda_) <= MaxTraces
          /\ train_loader = MakeLoader("train", nTrain, B, num_classes)
          /\ test_loader = MakeLoader("test", nTest, B, num_classes)

\* Long runs over fixed data: one class, no reconstruction term, loaders of at
\* most one batch of one sample.
InitLong ==
    /\ num_epochs = PlotEpochs
    /\ num_classes = 1
    /\ lambda_ = 0
    /\ \E nTrain \in 0..1, nTest \in 0..1 :
          /\ train_loader = MakeLoader("train", nTrain, 1, num_classes)
          /\ test_loader = MakeLoader("test", nTest, 1, num_classes)

Init ==
    /\ InitVaried \/ InitLong
    /\ checkpoint_name \in {None, "deepcaps.pth"}
    /\ load_checkpoint \in BOOLEAN
    /\ graphs_folder \in {None, "graphs/"}
    /\ checkpoint_file \in {NoFile, Corrupt}
    /\ run = 1
    /\ plots = <<>>
    /\ saved = [run |-> 0, epoch |-> 0, acc |-> Zero]
    /\ first_best = <<>>
    /\ pc = Fresh.pc /\ exit_code = Fresh.exit_code
    /\ deepcaps = Fresh.deepcaps /\ optimizer = Fresh.optimizer
    /\ best_accuracy = Fresh.zero
    /\ training_loss_list = Fresh.empty /\ training_acc_list = Fresh.empty
    /\ testing_loss_list = Fresh.empty /\ testing_acc_list = Fresh.empty
    /\ epoch_idx = Fresh.epoch_idx /\ it = 0
    /\ batch_idx = 0 /\ batch_loss = Fresh.zero /\ batch_accuracy = Fresh.zero
    /\ epoch_accuracy = Fresh.zero /\ avg_batch_loss = Fresh.zero
    /\ bound = FALSE
    /\ data = Fresh.empty /\ optic_data = Fresh.empty /\ labels = Fresh.empty
    /\ data_con = Fresh.empty /\ labels_con = Fresh.empty /\ fwd = Fresh.fwd
    /\ out = Fresh.empty /\ recon = Fresh.empty /\ ind = Fresh.empty
    /\ loss = 0
    /\ log = Fresh.empty
    /\ phase_losses = Fresh.empty /\ phase_accs = Fresh.empty
    /\ last_test = Fresh.last_test

\* ---------------------------------------------------------------- actions
Ended == pc \in {"done", "exited", "aborted"}

\* line 33: checkpoint_folder + checkpoint_name raises TypeError for a None
\* name; nothing catches it.
PathError ==
    /\ pc = "start"
    /\ checkpoint_name = None
    /\ pc' = "aborted"
    /\ exit_code' = UncaughtCode
    /\ UNCHANGED <<args, load_checkpoint, run, deepcaps, optimizer, best_accuracy,
                   lists, epoch_idx, it, accum, averages, batch_locals,
                   checkpoint_file, plots, log, observers>>

\* lines 33-36: the path is built and the model constructed.
Construct ==
    /\ pc = "start"
    /\ checkpoint_name # None
    /\ deepcaps' = [built |-> TRUE, params |-> 0, training |-> TRUE]
    /\ pc' = "load"
    /\ UNCHANGED <<args, load_checkpoint, run, exit_code, optimizer, best_accuracy,
                   lists, epoch_idx, it, accum, averages, batch_locals,
                   checkpoint_file, plots, log, observers>>

\* lines 38-44: the restore, when its condition holds; a file the load rejects
\* raises, the handler prints and calls sys.exit().
Restore ==
    /\ pc = "load"
    /\ ShouldRestore(load_checkpoint, checkpoint_name, checkpoint_file)
    /\ IF checkpoint_file.kind = "state"
       THEN /\ deepcaps' = [deepcaps EXCEPT !.params = checkpoint_file.params]
            /\ log' = Append(log, <<"restore", "loaded">>)
            /\ pc' = "setup"
            /\ UNCHANGED exit_code
       ELSE /\ log' = Append(log, <<"restore", "failed">>)
            /\ pc' = "exited"
            /\ exit_code' = SysExitCode
            /\ UNCHANGED deepcaps
    /\ UNCHANGED <<args, load_checkpoint, run, optimizer, best_accuracy,
                   lists, epoch_idx, it, accum, averages, batch_locals,
                   checkpoint_file, plots, observers>>

\* line 38, condition false: no restore.
SkipRestore ==
    /\ pc = "load"
    /\ ~ShouldRestore(load_checkpoint, checkpoint_name, checkpoint_file)
    /\ pc' = "setup"
    /\ UNCHANGED <<args, load_checkpoint, run, exit_code, deepcaps, optimizer,
                   best_accuracy, lists, epoch_idx, it, accum, averages,
                   batch_locals, checkpoint_file, plots, log, observers>>

\* lines 46-54: optimizer, best_accuracy and the four history lists.
Setup ==
    /\ pc = "setup"
    /\ optimizer' = [created |-> TRUE, steps |-> 0]
    /\ best_accuracy' = Zero
    /\ training_loss_list' = <<>> /\ training_acc_list' = <<>>
    /\ testing_loss_list' = <<>> /\ testing_acc_list' = <<>>
    /\ log' = Append(log, <<"optimizer", 0>>)
    /\ pc' = "epoch"
    /\ UNCHANGED <<args, load_checkpoint, run, exit_code, deepcaps, epoch_idx, it,
                   accum, averages, batch_locals, checkpoint_file, plots,
                   observers>>

\* Mutant of ResetAccumulators: the totals of the pass before are kept.
KeepAccumulators ==
    /\ UNCHANGED <<batch_loss, batch_accuracy>>
    /\ batch_idx' = 0

\* lines 62-64 and 99-101: the totals of a pass start at zero.
ResetAccumulators ==
    /\ batch_loss' = Zero /\ batch_accuracy' = Zero
    /\ batch_idx' = 0

\* Mutant of NewLists: the history lists are created anew in every epoch.
NewListsEachEpoch ==
    /\ training_loss_list' = <<>> /\ training_acc_list' = <<>>
    /\ testing_loss_list' = <<>> /\ testing_acc_list' = <<>>

\* lines 51-54 are outside the epoch loop: an epoch's start leaves the lists.
NewLists == UNCHANGED lists

\* lines 57-66: the next epoch of range(num_epochs) starts its training pass.
EpochBegin ==
    /\ pc = "epoch"
    /\ epoch_idx + 1 < num_epochs
    /\ epoch_idx' = epoch_idx + 1
    /\ NewLists
    /\ ResetAccumulators
    /\ deepcaps' = [deepcaps EXCEPT !.training = TRUE]
    /\ it' = 0
    /\ phase_losses' = <<>> /\ phase_accs' = <<>>
    /\ last_test' = Fresh.last_test
    /\ log' = Append(log, <<"epoch", epoch_idx'>>)
    /\ pc' = "train"
    /\ UNCHANGED <<args, load_checkpoint, run, exit_code, optimizer, best_accuracy,
                   averages, batch_locals, checkpoint_file, plots, saved,
                   first_best>>

\* line 57, range exhausted: train() returns and the process ends.
Return ==
    /\ pc = "epoch"
    /\ ~(epoch_idx + 1 < num_epochs)
    /\ pc' = "done"
    /\ exit_code' = 0
    /\ UNCHANGED <<args, load_checkpoint, run, deepcaps, optimizer, best_accuracy,
                   lists, epoch_idx, it, accum, averages, batch_locals,
                   checkpoint_file, plots, log, observers>>

\* lines 69-81 and 105-116: one batch b through the merge, the forward pass and
\* the loss; idx, idx1 and err are what the network produces for it.
BatchBody(b, idx, idx1, err) ==
    /\ bound' = TRUE
    /\ data' = b.data /\ optic_data' = b.optic_data /\ labels' = b.labels
    /\ data_con' = Merge(b.data, b.optic_data)
    /\ labels_con' = Merge(b.labels, b.labels)
    /\ fwd' = Forward(b.data, b.optic_data, num_classes, idx, idx1)
    /\ out' = Merge(fwd'.outputs, fwd'.outputs1)
    /\ recon' = Merge(fwd'.reconstructed, fwd'.reconstructed1)
    /\ ind' = Merge(fwd'.indices, fwd'.indices1)
    /\ loss' = Loss(out', onehot_encode(labels_con', num_classes), lambda_, err)

\* lines 86-87 and 118-119
Accumulate ==
    /\ batch_loss' = FAdd(batch_loss, FromInt(loss'))
    /\ batch_accuracy' = FAdd(batch_accuracy, accuracy_calc(ind', labels_con'))
    /\ phase_losses' = Append(phase_losses, FromInt(loss'))
    /\ phase_accs' = Append(phase_accs, accuracy_calc(ind', labels_con'))

\* lines 75 and 83-84: zero_grad, backward and the optimizer step.
TrainUpdate ==
    /\ deepcaps' = [deepcaps EXCEPT !.params = Step(deepcaps.params)]
    /\ optimizer' = [optimizer EXCEPT !.steps = optimizer.steps + 1]

\* Mutant of EvalUpdate: the testing pass steps the optimizer too.
EvalUpdateStepping ==
    /\ deepcaps' = [deepcaps EXCEPT !.params = Step(deepcaps.params)]
    /\ optimizer' = [optimizer EXCEPT !.steps = optimizer.steps + 1]

\* lines 111-119: the testing pass has no zero_grad, backward or step.
EvalUpdate == UNCHANGED <<deepcaps, optimizer>>

\* lines 68-87: one training batch, with its optimizer step.
TrainBatch ==
    /\ pc = "train"
    /\ it < Len(train_loader)
    /\ LET b == train_loader[it + 1] IN
         \E idx \in SeqOfLen(Classes(num_classes), Len(b.data)),
            idx1 \in SeqOfLen(Classes(num_classes), Len(b.data)),
            err \in 0..MaxRecon :
              BatchBody(b, idx, idx1, err)
    /\ batch_idx' = it
    /\ it' = it + 1
    /\ TrainUpdate
    /\ Accumulate
    /\ log' = Append(log, <<"train", batch_idx'>>)
    /\ UNCHANGED <<args, load_checkpoint, pc, run, exit_code, best_accuracy, lists,
                   epoch_idx, averages, checkpoint_file, plots, last_test, saved,
                   first_best>>

\* lines 90-103: the training averages are appended and the testing pass set
\* up; a zero divisor raises ZeroDivisionError, which nothing catches.
TrainFinalize ==
    /\ pc = "train"
    /\ it = Len(train_loader)
    /\ IF Divisor(batch_idx) = 0
       THEN /\ pc' = "aborted"
            /\ exit_code' = UncaughtCode
            /\ UNCHANGED <<deepcaps, lists, it, accum, averages, log, phase_losses,
                           phase_accs>>
       ELSE /\ epoch_accuracy' = EpochAverage(batch_accuracy, batch_idx)
            /\ avg_batch_loss' = EpochAverage(batch_loss, batch_idx)
            /\ training_loss_list' = Append(training_loss_list, avg_batch_loss')
            /\ training_acc_list' = Append(training_acc_list, epoch_accuracy')
            /\ ResetAccumulators
            /\ deepcaps' = [deepcaps EXCEPT !.training = FALSE]
            /\ it' = 0
            /\ phase_losses' = <<>> /\ phase_accs' = <<>>
            /\ log' = Append(log, <<"append_train", epoch_idx>>)
            /\ pc' = "test"
            /\ UNCHANGED <<exit_code, testing_loss_list, testing_acc_list>>
    /\ UNCHANGED <<args, load_checkpoint, run, optimizer, best_accuracy,
                   epoch_idx, batch_locals, checkpoint_file, plots, last_test,
                   saved, first_best>>

\* lines 104-119: one testing batch.
TestBatch ==
    /\ pc = "test"
    /\ it < Len(test_loader)
    /\ LET b == test_loader[it + 1] IN
         \E idx \in SeqOfLen(Classes(num_classes), Len(b.data)),
            idx1 \in SeqOfLen(Classes(num_classes), Len(b.data)),
            err \in 0..MaxRecon :
              BatchBody(b, idx, idx1, err)
    /\ batch_idx' = it
    /\ it' = it + 1
    /\ EvalUpdate
    /\ Accumulate
    /\ last_test' = [batch |-> batch_idx', ind |-> ind']
    /\ log' = Append(log, <<"test", batch_idx'>>)
    /\ UNCHANGED <<args, load_checkpoint, pc, run, exit_code,
                   best_accuracy, lists, epoch_idx, averages, checkpoint_file,
                   plots, saved, first_best>>

\* lines 122-128: the testing averages (a zero divisor raises
\* ZeroDivisionError); the F1 line reads ind and labels_con and raises NameError
\* when no batch ever bound them; otherwise the averages are appended.
TestFinalize ==
    /\ pc = "test"
    /\ it = Len(test_loader)
    /\ IF Divisor(batch_idx) = 0
       THEN /\ pc' = "aborted"
            /\ exit_code' = UncaughtCode
            /\ UNCHANGED <<testing_loss_list, testing_acc_list, averages, log>>
       ELSE /\ epoch_accuracy' = EpochAverage(batch_accuracy, batch_idx)
            /\ avg_batch_loss' = TestLossAverage(batch_loss, batch_idx)
            /\ IF bound
               THEN /\ testing_loss_list' = Append(testing_loss_list, avg_batch_loss')
                    /\ testing_acc_list' = Append(testing_acc_list, epoch_accuracy')
                    /\ log' = Append(log, <<"append_test", epoch_idx>>)
                    /\ pc' = "plot"
                    /\ UNCHANGED exit_code
               ELSE /\ pc' = "aborted"
                    /\ exit_code' = UncaughtCode
                    /\ UNCHANGED <<testing_loss_list, testing_acc_list, log>>
    /\ UNCHANGED <<args, load_checkpoint, run, deepcaps, optimizer, best_accuracy,
                   training_loss_list, training_acc_list, epoch_idx, it, accum,
                   batch_locals, checkpoint_file, plots, observers>>

\* lines 132-137: the curves and the reconstruction figure.
Plot ==
    /\ pc = "plot"
    /\ IF ShouldPlot(graphs_folder, epoch_idx)
       THEN /\ plots' = Append(plots,
                   [num_epoch |-> epoch_idx,
                    train_accuracies |-> training_acc_list,
                    train_losses |-> training_loss_list,
                    test_accuracies |-> testing_acc_list,
                    test_losses |-> testing_loss_list,
                    original_images |-> data_con,
                    reconstructed_images |-> recon,
                    predicted_classes |-> ind,
                    true_classes |-> labels_con])
            /\ log' = Append(log, <<"plot", epoch_idx>>)
       ELSE UNCHANGED <<plots, log>>
    /\ pc' = "checkpoint"
    /\ UNCHANGED <<args, load_checkpoint, run, exit_code, deepcaps, optimizer,
                   best_accuracy, lists, epoch_idx, it, accum, averages,
                   batch_locals, checkpoint_file, observers>>

\* lines 141-144: the checkpoint decision; best_accuracy is not assigned here.
Checkpoint ==
    /\ pc = "checkpoint"
    /\ IF ShouldSave(best_accuracy, epoch_accuracy)
       THEN /\ checkpoint_file' = StateDict(deepcaps.params)
            /\ saved' = [run |-> run, epoch |-> epoch_idx, acc |-> epoch_accuracy]
            /\ log' = Append(log, <<"save", epoch_idx>>)
       ELSE /\ log' = Append(log, <<"keep", epoch_idx>>)
            /\ UNCHANGED <<checkpoint_file, saved>>
    /\ pc' = "epoch"
    /\ UNCHANGED <<args, load_checkpoint, run, exit_code, deepcaps, optimizer,
                   best_accuracy, lists, epoch_idx, it, accum, averages,
                   batch_locals, plots, phase_losses, phase_accs, last_test,
                   first_best>>

RECURSIVE BestOf(_)
BestOf(s) ==
    IF s = <<>> THEN Zero
    ELSE LET r == BestOf(Tail(s)) IN IF FLess(r, Head(s)) THEN Head(s) ELSE r

\* lines 149-153: the program is started again once the earlier process ended;
\* arguments and loaders are those of the first run, load_checkpoint is the
\* operator's choice, the checkpoint file is what the earlier run left.
Invoke ==
    /\ Ended
    /\ run < MaxRuns
    /\ run' = run + 1
    /\ load_checkpoint' \in BOOLEAN
    /\ first_best' = Append(first_best,
                            [epochs |-> Len(testing_acc_list),
                             best |-> BestOf(testing_acc_list)])
    /\ plots' = <<>>
    /\ pc' = Fresh.pc /\ exit_code' = Fresh.exit_code
    /\ deepcaps' = Fresh.deepcaps /\ optimizer' = Fresh.optimizer
    /\ best_accuracy' = Fresh.zero
    /\ training_loss_list' = Fresh.empty /\ training_acc_list' = Fresh.empty
    /\ testing_loss_list' = Fresh.empty /\ testing_acc_list' = Fresh.empty
    /\ epoch_idx' = Fresh.epoch_idx /\ it' = 0
    /\ batch_idx' = 0 /\ batch_loss' = Fresh.zero /\ batch_accuracy' = Fresh.zero
    /\ epoch_accuracy' = Fresh.zero /\ avg_batch_loss' = Fresh.zero
    /\ bound' = FALSE
    /\ data' = Fresh.empty /\ optic_data' = Fresh.empty /\ labels' = Fresh.empty
    /\ data_con' = Fresh.empty /\ labels_con' = Fresh.empty /\ fwd' = Fresh.fwd
    /\ out' = Fresh.empty /\ recon' = Fresh.empty /\ ind' = Fresh.empty
    /\ loss' = 0
    /\ log' = Fresh.empty
    /\ phase_losses' = Fresh.empty /\ phase_accs' = Fresh.empty
    /\ last_test' = Fresh.last_test
    /\ UNCHANGED <<args, checkpoint_file, saved>>

Next ==
    \/ PathError \/ Construct \/ Restore \/ SkipRestore \/ Setup
    \/ EpochBegin \/ Return
    \/ TrainBatch \/ TrainFinalize \/ TestBatch \/ TestFinalize
    \/ Plot \/ Checkpoint
    \/ Invoke

Spec == Init /\ [][Next]_vars

\* ============================================================ properties
IsEvent(e, kind) == e[1] = kind
EventsOf(l, kind) == SelectSeq(l, LAMBDA e : IsEvent(e, kind))
Numbered(kind, n) == [i \in 1..n |-> <<kind, i - 1>>]

\* The events of l after its last "epoch" event.
RECURSIVE Segment(_)
Segment(l) ==
    IF l = <<>> \/ IsEvent(Last(l), "epoch") THEN <<>>
    ELSE Append(Segment(SubSeq(l, 1, Len(l) - 1)), Last(l))

Appended(l, m) == Len(m) = Len(l) + 1 /\ SubSeq(m, 1, Len(l)) = l

\* Index (from 1) of the first entry of s that no other entry exceeds.
FirstBest(s) ==
    CHOOSE i \in 1..Len(s) :
        /\ \A j \in 1..Len(s) : ~FLess(s[i], s[j])
        /\ \A j \in 1..(i - 1) : FLess(s[j], s[i])

\* C1: checkpoint monotonicity.  After every epoch's checkpoint decision the
\* state persisted by this run is the one of the epoch with the highest testing
\* accuracy so far, a later epoch that only equals or falls below the best never
\* overwriting it: the last save of the run was made at the first epoch that
\* reached the best accuracy, and a run whose accuracies were all zero saved
\* nothing.
C1_CheckpointIsBest ==
    (pc = "epoch" /\ testing_acc_list # <<>>) =>
        IF BestOf(testing_acc_list) = Zero
        THEN saved.run # run
        ELSE /\ saved.run = run
             /\ saved.epoch = FirstBest(testing_acc_list) - 1
             /\ saved.acc = BestOf(testing_acc_list)

\* C2: restart.  When a run of E epochs is followed by a run that restores its
\* checkpoint and completes E more epochs, the testing accuracy of the state
\* persisted at the end is at least the best testing accuracy of the first run.
C2_RestartKeepsBest ==
    (/\ run = 2
     /\ pc = "done"
     /\ <<"restore", "loaded">> \in {log[i] : i \in 1..Len(log)}
     /\ num_epochs >= 1
     /\ first_best[1].epochs = num_epochs
     /\ Len(testing_acc_list) = num_epochs)
        => ~FLess(saved.acc, first_best[1].best)

\* C3: a failed restore ends the process with a non-zero exit status.
C3_RestoreFailureExitsNonZero ==
    pc = "exited" => exit_code # 0

\* One step of the process, as C4 constrains it.
C4_Attempt == pc = "load" /\ Appended(log, log') /\ IsEvent(Last(log'), "restore")

C4_Step ==
    /\ C4_Attempt =>
          /\ load_checkpoint /\ checkpoint_name # None /\ checkpoint_file.kind # "none"
          /\ checkpoint_file.kind # "state" => pc' = "exited"
    /\ pc' = "exited" =>
          /\ ~optimizer'.created
          /\ log' = <<<<"restore", "failed">>>>
          /\ epoch_idx' = -1 /\ ~bound'
          /\ training_loss_list' = <<>> /\ training_acc_list' = <<>>
          /\ testing_loss_list' = <<>> /\ testing_acc_list' = <<>>
          /\ checkpoint_file' = checkpoint_file /\ saved'.run # run'
          /\ deepcaps'.params = 0
    /\ pc = "exited" => pc' = "start" /\ run' = run + 1

\* C4: fail-fast restore.  A restore is attempted only with load_checkpoint
\* set, a checkpoint name and an existing file; a restore that raises ends the
\* process at once: no optimizer, no epoch, no batch, no history entry, no write
\* of the checkpoint file, and nothing follows in that process.
C4_FailFastRestore == [][C4_Step]_vars

\* Witness of C4: a corrupt checkpoint was found with load_checkpoint set and the process exited before the optimizer existed.
C4_Witness ==
    pc = "exited" /\ checkpoint_file = Corrupt /\ load_checkpoint /\ ~optimizer.created

\* One step of the process, as C5 constrains it.
C5_Step ==
    /\ run' = run =>
          /\ EventsOf(log', "epoch") = Numbered("epoch", epoch_idx' + 1)
          /\ pc' = "done" => epoch_idx' + 1 = num_epochs
          /\ pc' = "train" =>
                /\ EventsOf(Segment(log'), "test") = <<>>
                /\ EventsOf(Segment(log'), "train") = Numbered("train", it')
          /\ pc' \in {"test", "plot", "checkpoint"} =>
                EventsOf(Segment(log'), "train") = Numbered("train", Len(train_loader))
          /\ pc' = "test" => EventsOf(Segment(log'), "test") = Numbered("test", it')
          /\ pc' \in {"plot", "checkpoint"} =>
                EventsOf(Segment(log'), "test") = Numbered("test", Len(test_loader))
          /\ optimizer'.steps = Len(EventsOf(log', "train"))
    /\ (Appended(log, log') /\ IsEvent(Last(log'), "train")) =>
          /\ optimizer'.steps = optimizer.steps + 1
          /\ deepcaps'.params # deepcaps.params
    /\ pc = "test" => deepcaps'.params = deepcaps.params /\ optimizer' = optimizer

\* C5: epoch structure.  A run that returns ran the epochs 0..num_epochs-1 in
\* order; in each epoch every training batch comes before any testing batch;
\* the optimizer steps once per training batch and never in the testing pass,
\* whose steps leave the parameters as they were.
C5_EpochStructure == [][C5_Step]_vars

\* Witness of C5: a run of two epochs over two training batches and one testing batch returned after four optimizer steps.
C5_Witness ==
    /\ pc = "done" /\ num_epochs = 2
    /\ Len(train_loader) = 2 /\ Len(test_loader) = 1
    /\ optimizer.steps = 4

\* The step that ends a pass, as C6 constrains it.
C6_Step ==
    LET n == Len(phase_accs) IN
    /\ (pc = "train" /\ pc' = "test" /\ Len(train_loader) >= 1) =>
          /\ n = Len(train_loader) /\ Len(phase_losses) = n
          /\ Last(training_acc_list') = FDiv(FSum(phase_accs), n)
          /\ Last(training_loss_list') = FDiv(FSum(phase_losses), n)
    /\ (pc = "test" /\ pc' = "plot" /\ Len(test_loader) >= 1) =>
          /\ n = Len(test_loader) /\ Len(phase_losses) = n
          /\ Last(testing_acc_list') = FDiv(FSum(phase_accs), n)
          /\ Last(testing_loss_list') = FDiv(FDiv(FSum(phase_losses), n), 2)

\* C6: epoch metrics.  At the end of a pass over n >= 1 batches the reported
\* accuracy is the sum of the n per-batch accuracies of that pass divided by n
\* and the training loss the sum of its n per-batch losses divided by n; the
\* testing loss is that quotient halved.  Only the batches of the pass count.
C6_EpochMetrics == [][C6_Step]_vars

\* Witness of C6: a testing pass of two batches with different accuracies and losses ended after a training pass with non-zero averages.
C6_Witness ==
    /\ pc = "plot" /\ Len(test_loader) = 2 /\ Len(train_loader) = 2
    /\ phase_accs[1] # phase_accs[2] /\ phase_losses[1] # phase_losses[2]
    /\ Last(training_acc_list) # Zero /\ Last(training_loss_list) # Zero
    /\ Last(testing_loss_list) = FDiv(FDiv(FSum(phase_losses), 2), 2)

\* C7 as stated: a loader without batches makes epoch finalization divide by
\* zero, so that no average of that pass is ever produced.
C7_EmptyLoaderNoAverage ==
    /\ Len(train_loader) = 0 => training_acc_list = <<>> /\ training_loss_list = <<>>
    /\ Len(test_loader) = 0 => testing_acc_list = <<>> /\ testing_loss_list = <<>>

\* The step that ends a pass over an empty loader.
C7_Step ==
    /\ (pc = "train" /\ Len(train_loader) = 0) =>
          /\ batch_idx = 0 /\ pc' = "test"
          /\ epoch_accuracy' = Zero /\ avg_batch_loss' = Zero
          /\ training_acc_list' = Append(training_acc_list, Zero)
          /\ training_loss_list' = Append(training_loss_list, Zero)
    /\ (pc = "test" /\ Len(test_loader) = 0) =>
          /\ batch_idx = 0
          /\ epoch_accuracy' = Zero /\ avg_batch_loss' = Zero
          /\ IF Len(train_loader) = 0
             THEN pc' = "aborted" /\ testing_acc_list' = testing_acc_list
             ELSE /\ pc' = "plot"
                  /\ testing_acc_list' = Append(testing_acc_list, Zero)
                  /\ testing_loss_list' = Append(testing_loss_list, Zero)

\* C7 as amended: with a loader without batches the divisor is batch_idx+1 = 1,
\* batch_idx keeping the 0 assigned before the loop, so finalization does not
\* fail on the division and the averages of the pass are 0; the training ones
\* are appended, the testing ones too unless no batch was ever processed, when
\* the F1 line ends the run.
C7_EmptyLoaderAveragesZero == [][C7_Step]_vars

\* Witness of C7: an epoch over an empty testing loader and a non-empty training loader appended testing averages of 0.
C7_Witness ==
    /\ Len(test_loader) = 0 /\ Len(train_loader) >= 1
    /\ pc = "plot" /\ testing_acc_list = <<Zero>> /\ testing_loss_list = <<Zero>>
    /\ training_acc_list # <<Zero>>

\* One step of a run, as C8 constrains the four lists.
C8_Lists(a, b, c, d) == <<a, b, c, d>>

C8_Step ==
    run' = run =>
      /\ \A i \in 1..4 :
            LET old == C8_Lists(training_loss_list, training_acc_list,
                                testing_loss_list, testing_acc_list)[i]
                new == C8_Lists(training_loss_list', training_acc_list',
                                testing_loss_list', testing_acc_list')[i]
            IN  new = old \/ Appended(old, new)
      /\ epoch_idx' = -1 =>
            C8_Lists(training_loss_list', training_acc_list',
                     testing_loss_list', testing_acc_list') = <<<<>>, <<>>, <<>>, <<>>>>
      /\ pc' = "epoch" =>
            /\ Len(training_loss_list') = epoch_idx' + 1
            /\ Len(training_acc_list') = epoch_idx' + 1
            /\ Len(testing_loss_list') = epoch_idx' + 1
            /\ Len(testing_acc_list') = epoch_idx' + 1
      /\ (pc = "train" /\ pc' = "test") =>
            /\ training_loss_list' = Append(training_loss_list, avg_batch_loss')
            /\ training_acc_list' = Append(training_acc_list, epoch_accuracy')
            /\ Len(training_loss_list') = epoch_idx + 1
            /\ Len(training_acc_list') = epoch_idx + 1
      /\ (pc = "test" /\ pc' = "plot") =>
            /\ testing_loss_list' = Append(testing_loss_list, avg_batch_loss')
            /\ testing_acc_list' = Append(testing_acc_list, epoch_accuracy')
            /\ Len(testing_loss_list') = epoch_idx + 1
            /\ Len(testing_acc_list') = epoch_idx + 1

\* C8: history lists.  The four lists start empty and only grow by appends
\* during a run; after k completed epochs each has k entries; the entry an epoch
\* appends is that epoch's average of the metric, at position epoch_idx.
C8_HistoryLists == [][C8_Step]_vars

\* Witness of C8: two epochs completed with different entries in the lists.
C8_Witness ==
    /\ pc = "epoch" /\ epoch_idx = 1
    /\ Len(training_loss_list) = 2 /\ Len(testing_acc_list) = 2
    /\ testing_acc_list[1] # testing_acc_list[2]
    /\ training_loss_list[1] # training_loss_list[2]

\* C9: merged batch.  For a batch of B samples the merged images are the B
\* primary images followed by the B secondary ones, the merged labels the
\* labels twice, and class outputs, reconstructions and predicted indices are
\* the first branch's followed by the second branch's, so that prediction i is
\* compared with the label of merged sample i.
C9_MergedBatch ==
    bound =>
      LET B == Len(data) IN
      /\ Len(optic_data) = B /\ Len(labels) = B
      /\ Len(data_con) = 2 * B /\ Len(labels_con) = 2 * B
      /\ Len(out) = 2 * B /\ Len(recon) = 2 * B /\ Len(ind) = 2 * B
      /\ \A i \in 1..B :
            /\ data_con[i] = data[i] /\ data_con[B + i] = optic_data[i]
            /\ labels_con[i] = labels[i] /\ labels_con[B + i] = labels[i]
            /\ out[i] = fwd.outputs[i] /\ out[B + i] = fwd.outputs1[i]
            /\ recon[i] = fwd.reconstructed[i] /\ recon[B + i] = fwd.reconstructed1[i]
            /\ ind[i] = fwd.indices[i] /\ ind[B + i] = fwd.indices1[i]
      /\ \A i \in 1..(2 * B) : recon[i] = <<"recon", data_con[i]>>
      /\ phase_accs # <<>> =>
            Last(phase_accs) =
                Frac(Cardinality({i \in 1..(2 * B) : ind[i] = labels_con[i]}), 2 * B)

\* Witness of C9: a testing batch of two samples with different labels and predictions, one of its four predictions right.
C9_Witness ==
    /\ bound /\ pc = "test" /\ it = 1 /\ Len(data) = 2
    /\ labels[1] # labels[2]
    /\ fwd.indices # fwd.indices1 /\ ind[1] # ind[2]
    /\ Last(phase_accs) = Frac(1, 4)

\* When the plots are emitted, and with which history.
C10_Emitted == pc = "plot" /\ Appended(plots, plots')

C10_Timing ==
    /\ pc = "plot" => (C10_Emitted <=> (graphs_folder # None /\ epoch_idx % PlotEvery = 0))
    /\ pc # "plot" /\ run' = run => plots' = plots
    /\ graphs_folder = None => plots' = <<>>
    /\ C10_Emitted =>
          LET p == Last(plots') IN
          /\ p.num_epoch = epoch_idx
          /\ p.train_losses = training_loss_list /\ Len(training_loss_list) = epoch_idx + 1
          /\ p.train_accuracies = training_acc_list /\ Len(training_acc_list) = epoch_idx + 1
          /\ p.test_losses = testing_loss_list /\ Len(testing_loss_list) = epoch_idx + 1
          /\ p.test_accuracies = testing_acc_list /\ Len(testing_acc_list) = epoch_idx + 1
          /\ <<"save", epoch_idx>> \notin {log[i] : i \in 1..Len(log)}
          /\ <<"keep", epoch_idx>> \notin {log[i] : i \in 1..Len(log)}
          /\ pc' = "checkpoint"

C10_ShowsBatch(p, b, predicted) ==
    /\ p.original_images = b.data \o b.optic_data
    /\ p.true_classes = b.labels \o b.labels
    /\ p.reconstructed_images = [i \in 1..(2 * Len(b.data)) |-> <<"recon", p.original_images[i]>>]
    /\ p.predicted_classes = predicted

\* C10 as stated: at the end of epoch e the curves and the reconstruction
\* figure are emitted exactly when a graphs folder is configured and e is a
\* multiple of 5; the emission comes after the epoch's four history entries and
\* before its checkpoint decision, and the figure shows the final batch of the
\* epoch's testing pass.
C10_PlotOfFinalTestBatch ==
    [][/\ C10_Timing
       /\ C10_Emitted =>
             /\ Len(test_loader) >= 1
             /\ last_test.batch = Len(test_loader) - 1
             /\ C10_ShowsBatch(Last(plots'), test_loader[Len(test_loader)], last_test.ind)]_vars

\* C10 as amended: the same, but the figure shows the batch processed last:
\* the final batch of the epoch's testing pass when the testing loader yields
\* batches, and the final batch of the epoch's training pass when it is empty.
C10_PlotOfLastBatch ==
    [][/\ C10_Timing
       /\ C10_Emitted =>
             IF Len(test_loader) >= 1
             THEN /\ last_test.batch = Len(test_loader) - 1
                  /\ C10_ShowsBatch(Last(plots'), test_loader[Len(test_loader)],
                                    last_test.ind)
             ELSE /\ Len(train_loader) >= 1
                  /\ last_test.batch = -1
                  /\ C10_ShowsBatch(Last(plots'), train_loader[Len(train_loader)], ind)]_vars

\* Witness of C10: the second emission of a run, at epoch 5, with six entries of history.
C10_Witness ==
    /\ Len(plots) = 2 /\ plots[2].num_epoch = PlotEvery
    /\ Len(test_loader) >= 1 /\ pc = "checkpoint"
    /\ Len(plots[2].test_accuracies) = PlotEvery + 1

====
